---- MODULE Spec2Model ----
(***************************************************************************)
(* Conversation state machine of the restaurant booking agent:            *)
(* agent/state.py (BookingState), agent/nodes.py (node functions and      *)
(* routing predicates), agent/graph.py (the LangGraph workflow),          *)
(* apis/booking.py and apis/sms.py (the mock commit services) and the     *)
(* Streamlit front-end that re-invokes the graph once per user message.   *)
(***************************************************************************)
EXTENDS Integers, Sequences, FiniteSets, TLC

\* Number of graph invocations (user turns) explored per session.
MaxTurns == 4

(***************************************************************************)
(* Optional values: Python None is the empty tuple, a value v is <<v>>.    *)
(***************************************************************************)
None == <<>>
Some(v) == <<v>>

END == "__end__"

FieldNames ==
  <<"restaurant_name", "date", "time", "party_size", "customer_name", "phone">>

FieldSet == {FieldNames[i] : i \in 1..Len(FieldNames)}

\* Values the extraction service may return for each field.  The restaurant
\* "Test Failure Restaurant" and the phone "555-SMS-FAIL" are the values the
\* mock services fail on deterministically.
RestaurantNames == {"Mario's", "Test Failure Restaurant"}
Dates == {"2025-12-01"}
Times == {"19:00"}
PartySizes == {4}
CustomerNames == {"John Doe"}
Phones == {"555-1234", "555-SMS-FAIL"}

\* apis/booking.py: f"BK-{random.randint(BOOKING_REF_MIN, BOOKING_REF_MAX)}"
BOOKING_REF_MIN == 10000
BOOKING_REF_MAX == 99999
RefNumbers == {BOOKING_REF_MIN, BOOKING_REF_MAX}
FormatRef(n) ==
  CASE n = BOOKING_REF_MIN -> "BK-10000"
    [] n = BOOKING_REF_MAX -> "BK-99999"

\* str() of an int inside an f-string, for the party sizes of the model.
FormatInt(n) ==
  CASE n = 0 -> "0"
    [] n = 4 -> "4"

\* f-string rendering of an Optional[str] / Optional[int] state value.
FormatStr(x) == IF x = None THEN "None" ELSE x[1]
FormatSize(x) == IF x = None THEN "None" ELSE FormatInt(x[1])

\* Python truthiness of Optional[str] and Optional[int].
TruthyStr(x) == x # None /\ x[1] # ""
TruthyInt(x) == x # None /\ x[1] # 0

(***************************************************************************)
(* Messages.  The content of a message is the template (the literal text   *)
(* of the f-string, named by its leading words) and the tuple of values    *)
(* interpolated into it.                                                   *)
(***************************************************************************)
T_Human == "<user utterance>"
T_LLM == "<llm text>"
T_Confirm == "Great! Let me confirm the details of your booking:"
T_Created == "Perfect! I've created your booking. Reference:"
T_RetryOk == "Success! Your booking has been created. Reference:"
T_BookingFailed == "I'm having trouble creating your booking right now."
T_SmsSent == "I've sent a confirmation SMS to your phone. Your booking is all set!"
T_SmsError == "Your booking is confirmed! However, I couldn't send the confirmation SMS."
T_SmsBody == "Your booking is confirmed! (sms body)"

\* Literal templates that contain the words "sent a confirmation SMS".
TemplatesWithSmsPhrase == {T_SmsSent}

\* Interpolated strings that contain the words "sent a confirmation SMS".
StringsWithSmsPhrase == {"I've already sent a confirmation SMS."}

Content(template, args) == [template |-> template, args |-> args]

HumanMessage(content) == [role |-> "human", id |-> None, content |-> content]
AIMessage(content) == [role |-> "ai", id |-> None, content |-> content]

\* `"sent a confirmation SMS" in content`
ContainsSmsPhrase(content) ==
  \/ content.template \in TemplatesWithSmsPhrase
  \/ \E i \in 1..Len(content.args) : content.args[i] \in StringsWithSmsPhrase

\* `value in content` for an interpolated value.
ContainsArg(content, value) ==
  \E i \in 1..Len(content.args) : content.args[i] = value

(***************************************************************************)
(* The add_messages reducer of BookingState.messages: messages without an  *)
(* id get a fresh one, a message whose id is already in the history        *)
(* replaces that entry in place, any other message is appended.            *)
(***************************************************************************)
\* Variant: a new message is put in front of the history.
AddOneMessage_prepends(left, m) ==
  IF m.id # None /\ \E i \in 1..Len(left) : left[i].id = m.id
  THEN LET i == CHOOSE j \in 1..Len(left) : left[j].id = m.id
       IN [left EXCEPT ![i] = m]
  ELSE <<IF m.id = None THEN [m EXCEPT !.id = Some(Len(left) + 1)] ELSE m>> \o left

AddOneMessage(left, m) ==
  IF m.id # None /\ \E i \in 1..Len(left) : left[i].id = m.id
  THEN LET i == CHOOSE j \in 1..Len(left) : left[j].id = m.id
       IN [left EXCEPT ![i] = m]
  ELSE Append(left, IF m.id = None
                    THEN [m EXCEPT !.id = Some(Len(left) + 1)]
                    ELSE m)

RECURSIVE add_messages(_, _)
add_messages(left, right) ==
  IF right = <<>> THEN left
  ELSE add_messages(AddOneMessage(left, Head(right)), Tail(right))

(***************************************************************************)
(* Partial updates returned by nodes, and how the graph applies them.      *)
(***************************************************************************)
EmptyUpdate == [k \in {} |-> TRUE]

UpdateIf(cond, key, val) == IF cond THEN key :> val ELSE EmptyUpdate

ApplyUpdate(s, u) ==
  [k \in DOMAIN s |->
     IF k \notin DOMAIN u THEN s[k]
     ELSE IF k = "messages" THEN add_messages(s.messages, u.messages)
     ELSE u[k]]

\* main.py / streamlit_app.py: the freshly initialised BookingState.
InitialState ==
  [messages |-> <<>>,
   restaurant_name |-> None,
   date |-> None,
   time |-> None,
   party_size |-> None,
   customer_name |-> None,
   phone |-> None,
   booking_ref |-> None,
   all_info_collected |-> FALSE,
   awaiting_confirmation |-> FALSE,
   user_confirmed |-> FALSE,
   conversation_complete |-> FALSE]

(***************************************************************************)
(* Structured outputs of the LLM (BookingInfo, ConfirmationResponse).      *)
(***************************************************************************)
OptOf(S) == {None} \cup {Some(v) : v \in S}

ResponseMessages == {"Got it. What else can you tell me?"}

BookingInfo ==
  [restaurant_name : OptOf(RestaurantNames \cup {""}),
   date : OptOf(Dates),
   time : OptOf(Times),
   party_size : OptOf(PartySizes \cup {0}),
   customer_name : OptOf(CustomerNames),
   phone : OptOf(Phones),
   response_message : ResponseMessages]

RequestedChanges ==
  {"", "Please specify what changes you would like to make to the booking."}
  \cup StringsWithSmsPhrase

ConfirmationResponse ==
  [user_wants_to_proceed : BOOLEAN,
   requested_changes : OptOf(RequestedChanges)]

(***************************************************************************)
(* The mock commit services.  random.random() < RATE is a nondeterministic *)
(* choice, so each operator is the set of results a call can return.       *)
(***************************************************************************)
BookingFailure == [success |-> FALSE, booking_ref |-> None]
BookingSuccess(n) == [success |-> TRUE, booking_ref |-> Some(FormatRef(n))]

create_booking(restaurant, date, time, party_size, name, phone) ==
  IF restaurant = Some("Test Failure Restaurant")
  THEN {BookingFailure}
  ELSE {BookingFailure} \cup {BookingSuccess(n) : n \in RefNumbers}

send_sms(phone, message) ==
  IF phone = Some("555-SMS-FAIL")
  THEN {[success |-> FALSE]}
  ELSE {[success |-> FALSE], [success |-> TRUE]}

(***************************************************************************)
(* Node functions of agent/nodes.py: each returns a partial update.        *)
(***************************************************************************)
\* Variant: the two branches of the entry router are swapped.
router_node_swapped(state) ==
  IF state.awaiting_confirmation THEN "collect_info" ELSE "handle_confirmation"

\* Variant: the entry router tests all_info_collected instead of
\* awaiting_confirmation.
router_node_on_all_info(state) ==
  IF state.all_info_collected THEN "handle_confirmation" ELSE "collect_info"

router_node(state) ==
  IF state.awaiting_confirmation THEN "handle_confirmation" ELSE "collect_info"

\* Variant: the assistant message is appended only when the extraction
\* result carries a field.
collect_info_node_silent_when_empty(state, response) ==
  UpdateIf(\/ TruthyStr(response.restaurant_name) \/ TruthyStr(response.date)
           \/ TruthyStr(response.time) \/ TruthyInt(response.party_size)
           \/ TruthyStr(response.customer_name) \/ TruthyStr(response.phone),
           "messages", <<AIMessage(Content(T_LLM, <<response.response_message>>))>>)
  @@ UpdateIf(TruthyStr(response.restaurant_name), "restaurant_name", response.restaurant_name)
  @@ UpdateIf(TruthyStr(response.date), "date", response.date)
  @@ UpdateIf(TruthyStr(response.time), "time", response.time)
  @@ UpdateIf(TruthyInt(response.party_size), "party_size", response.party_size)
  @@ UpdateIf(TruthyStr(response.customer_name), "customer_name", response.customer_name)
  @@ UpdateIf(TruthyStr(response.phone), "phone", response.phone)

\* Variant: the extraction result is copied field by field without the
\* `if response.<field>:` guards.
collect_info_node_unguarded(state, response) ==
  [messages |-> <<AIMessage(Content(T_LLM, <<response.response_message>>))>>,
   restaurant_name |-> response.restaurant_name,
   date |-> response.date,
   time |-> response.time,
   party_size |-> response.party_size,
   customer_name |-> response.customer_name,
   phone |-> response.phone]

collect_info_node(state, response) ==
  ("messages" :> <<AIMessage(Content(T_LLM, <<response.response_message>>))>>)
  @@ UpdateIf(TruthyStr(response.restaurant_name), "restaurant_name", response.restaurant_name)
  @@ UpdateIf(TruthyStr(response.date), "date", response.date)
  @@ UpdateIf(TruthyStr(response.time), "time", response.time)
  @@ UpdateIf(TruthyInt(response.party_size), "party_size", response.party_size)
  @@ UpdateIf(TruthyStr(response.customer_name), "customer_name", response.customer_name)
  @@ UpdateIf(TruthyStr(response.phone), "phone", response.phone)

\* Variant: phone is left out of required_fields.
should_continue_collecting_without_phone(state) ==
  LET required_fields == <<state.restaurant_name, state.date, state.time,
                           state.party_size, state.customer_name>>
      all_filled == \A i \in 1..Len(required_fields) : required_fields[i] # None
  IN IF all_filled THEN "confirm" ELSE "collect"

should_continue_collecting(state) ==
  LET required_fields == <<state.restaurant_name, state.date, state.time,
                           state.party_size, state.customer_name, state.phone>>
      all_filled == \A i \in 1..Len(required_fields) : required_fields[i] # None
  IN IF all_filled THEN "confirm" ELSE "collect"

\* Variant: the summary state also ends the conversation.
confirm_node_ends_conversation(state) ==
  [messages |-> <<AIMessage(Content(T_Confirm,
                   <<FormatStr(state.restaurant_name), FormatStr(state.date),
                     FormatStr(state.time), FormatSize(state.party_size),
                     FormatStr(state.customer_name), FormatStr(state.phone)>>))>>,
   all_info_collected |-> TRUE,
   awaiting_confirmation |-> TRUE,
   conversation_complete |-> TRUE]

\* Variant: the summary state does not write all_info_collected.
confirm_node_without_flag(state) ==
  [messages |-> <<AIMessage(Content(T_Confirm,
                   <<FormatStr(state.restaurant_name), FormatStr(state.date),
                     FormatStr(state.time), FormatSize(state.party_size),
                     FormatStr(state.customer_name), FormatStr(state.phone)>>))>>,
   awaiting_confirmation |-> TRUE]

confirm_node(state) ==
  [messages |-> <<AIMessage(Content(T_Confirm,
                   <<FormatStr(state.restaurant_name), FormatStr(state.date),
                     FormatStr(state.time), FormatSize(state.party_size),
                     FormatStr(state.customer_name), FormatStr(state.phone)>>))>>,
   all_info_collected |-> TRUE,
   awaiting_confirmation |-> TRUE]

\* Variant: a rejection with a change request clears the restaurant.
handle_confirmation_node_clears_restaurant(state, response) ==
  IF ~response.user_wants_to_proceed /\ TruthyStr(response.requested_changes)
  THEN [user_confirmed |-> FALSE,
        awaiting_confirmation |-> FALSE,
        restaurant_name |-> None,
        messages |-> <<AIMessage(Content(T_LLM, <<response.requested_changes[1]>>))>>]
  ELSE [user_confirmed |-> response.user_wants_to_proceed,
        awaiting_confirmation |-> FALSE]

\* Variant: the rejection branch does not write user_confirmed.
handle_confirmation_node_keeps_flag(state, response) ==
  IF ~response.user_wants_to_proceed /\ TruthyStr(response.requested_changes)
  THEN [awaiting_confirmation |-> FALSE,
        messages |-> <<AIMessage(Content(T_LLM, <<response.requested_changes[1]>>))>>]
  ELSE [user_confirmed |-> response.user_wants_to_proceed,
        awaiting_confirmation |-> FALSE]

handle_confirmation_node(state, response) ==
  IF ~response.user_wants_to_proceed /\ TruthyStr(response.requested_changes)
  THEN [user_confirmed |-> FALSE,
        awaiting_confirmation |-> FALSE,
        messages |-> <<AIMessage(Content(T_LLM, <<response.requested_changes[1]>>))>>]
  ELSE [user_confirmed |-> response.user_wants_to_proceed,
        awaiting_confirmation |-> FALSE]

\* Variant: the decision edge tests all_info_collected instead of
\* user_confirmed.
check_confirmation_routing_on_all_info(state) ==
  IF state.all_info_collected THEN "proceed" ELSE "collect"

check_confirmation_routing(state) ==
  IF state.user_confirmed THEN "proceed" ELSE "collect"

\* The six keyword arguments both create_booking call sites pass.
BookingArgs(state) ==
  <<state.restaurant_name, state.date, state.time,
    state.party_size, state.customer_name, state.phone>>

\* Variant: a failed first attempt ends the conversation at once.
create_booking_node_terminal_on_failure(state, result) ==
  IF result.success
  THEN [booking_ref |-> result.booking_ref,
        messages |-> <<AIMessage(Content(T_Created, <<FormatStr(result.booking_ref)>>))>>]
  ELSE [booking_ref |-> None, conversation_complete |-> TRUE]

\* Variant: the failure branch returns an empty update instead of
\* {"booking_ref": None}.
create_booking_node_empty_on_failure(state, result) ==
  IF result.success
  THEN [booking_ref |-> result.booking_ref,
        messages |-> <<AIMessage(Content(T_Created, <<FormatStr(result.booking_ref)>>))>>]
  ELSE EmptyUpdate

create_booking_node(state, result) ==
  IF result.success
  THEN [booking_ref |-> result.booking_ref,
        messages |-> <<AIMessage(Content(T_Created, <<FormatStr(result.booking_ref)>>))>>]
  ELSE [booking_ref |-> None]

\* Variant: a successful retry also sets conversation_complete.
handle_booking_error_node_terminal_on_success(state, result) ==
  IF result.success
  THEN [booking_ref |-> result.booking_ref,
        messages |-> <<AIMessage(Content(T_RetryOk, <<FormatStr(result.booking_ref)>>))>>,
        conversation_complete |-> TRUE]
  ELSE [messages |-> <<AIMessage(Content(T_BookingFailed,
                        <<FormatStr(state.restaurant_name), FormatStr(state.date),
                          FormatStr(state.time), FormatSize(state.party_size),
                          FormatStr(state.customer_name), FormatStr(state.phone)>>))>>,
        conversation_complete |-> TRUE]

\* Variant: the retry-failure branch stores a placeholder reference.
handle_booking_error_node_placeholder_ref(state, result) ==
  IF result.success
  THEN [booking_ref |-> result.booking_ref,
        messages |-> <<AIMessage(Content(T_RetryOk, <<FormatStr(result.booking_ref)>>))>>]
  ELSE [booking_ref |-> Some("PENDING"),
        messages |-> <<AIMessage(Content(T_BookingFailed,
                        <<FormatStr(state.restaurant_name), FormatStr(state.date),
                          FormatStr(state.time), FormatSize(state.party_size),
                          FormatStr(state.customer_name), FormatStr(state.phone)>>))>>,
        conversation_complete |-> TRUE]

\* Variant: the retry-failure branch does not set conversation_complete.
handle_booking_error_node_not_terminal(state, result) ==
  IF result.success
  THEN [booking_ref |-> result.booking_ref,
        messages |-> <<AIMessage(Content(T_RetryOk, <<FormatStr(result.booking_ref)>>))>>]
  ELSE [messages |-> <<AIMessage(Content(T_BookingFailed,
                        <<FormatStr(state.restaurant_name), FormatStr(state.date),
                          FormatStr(state.time), FormatSize(state.party_size),
                          FormatStr(state.customer_name), FormatStr(state.phone)>>))>>]

handle_booking_error_node(state, result) ==
  IF result.success
  THEN [booking_ref |-> result.booking_ref,
        messages |-> <<AIMessage(Content(T_RetryOk, <<FormatStr(result.booking_ref)>>))>>]
  ELSE [messages |-> <<AIMessage(Content(T_BookingFailed,
                        <<FormatStr(state.restaurant_name), FormatStr(state.date),
                          FormatStr(state.time), FormatSize(state.party_size),
                          FormatStr(state.customer_name), FormatStr(state.phone)>>))>>,
        conversation_complete |-> TRUE]

sms_message(state) ==
  Content(T_SmsBody,
          <<FormatStr(state.restaurant_name), FormatStr(state.date),
            FormatStr(state.time), FormatSize(state.party_size),
            FormatStr(state.booking_ref)>>)

\* Variant: the failure branch itself ends the conversation.
send_sms_node_terminal_on_failure(state, result) ==
  IF result.success
  THEN [messages |-> <<AIMessage(Content(T_SmsSent, <<>>))>>,
        conversation_complete |-> TRUE]
  ELSE [conversation_complete |-> TRUE]

\* Variant: the success branch does not set conversation_complete.
send_sms_node_not_terminal(state, result) ==
  IF result.success
  THEN [messages |-> <<AIMessage(Content(T_SmsSent, <<>>))>>]
  ELSE EmptyUpdate

send_sms_node(state, result) ==
  IF result.success
  THEN [messages |-> <<AIMessage(Content(T_SmsSent, <<>>))>>,
        conversation_complete |-> TRUE]
  ELSE EmptyUpdate

\* Variant: the SMS error message leaves the booking reference out.
handle_sms_error_node_without_ref(state) ==
  [messages |-> <<AIMessage(Content(T_SmsError,
                   <<FormatStr(state.restaurant_name), FormatStr(state.date),
                     FormatStr(state.time), FormatSize(state.party_size)>>))>>,
   conversation_complete |-> TRUE]

handle_sms_error_node(state) ==
  [messages |-> <<AIMessage(Content(T_SmsError,
                   <<FormatStr(state.restaurant_name), FormatStr(state.date),
                     FormatStr(state.time), FormatSize(state.party_size),
                     FormatStr(state.booking_ref), FormatStr(state.booking_ref)>>))>>,
   conversation_complete |-> TRUE]

(***************************************************************************)
(* Routing predicates and conditional edges of agent/graph.py.             *)
(***************************************************************************)
check_booking_success(state) ==
  IF TruthyStr(state.booking_ref) THEN "send_sms" ELSE "handle_booking_error"

\* Variant: the phrase is searched in the whole history instead of the last
\* message.
check_sms_success_any_message(state) ==
  IF \E i \in 1..Len(state.messages) : ContainsSmsPhrase(state.messages[i].content)
  THEN END ELSE "handle_sms_error"

check_sms_success(state) ==
  LET last_message == state.messages[Len(state.messages)].content
  IN IF ContainsSmsPhrase(last_message) THEN END ELSE "handle_sms_error"

RouterEdge(r) ==
  CASE r = "collect_info" -> "collect_info"
    [] r = "handle_confirmation" -> "handle_confirmation"

\* Variant: "collect" loops back to collect_info, as in the flow diagram of
\* the build_graph docstring, instead of leaving the graph.
CollectEdge_loops_back(r) ==
  CASE r = "collect" -> "collect_info"
    [] r = "confirm" -> "confirm"

CollectEdge(r) ==
  CASE r = "collect" -> END
    [] r = "confirm" -> "confirm"

\* Variant: both outcomes of the decision lead to create_booking.
ConfirmationEdge_always_books(r) ==
  CASE r = "proceed" -> "create_booking"
    [] r = "collect" -> "create_booking"

ConfirmationEdge(r) ==
  CASE r = "proceed" -> "create_booking"
    [] r = "collect" -> END

\* Variant: the notification follows the first attempt whatever its outcome.
BookingEdge_always_notifies(r) ==
  CASE r = "send_sms" -> "send_sms"
    [] r = "handle_booking_error" -> "send_sms"

BookingEdge(r) ==
  CASE r = "send_sms" -> "send_sms"
    [] r = "handle_booking_error" -> "handle_booking_error"

\* Variant: a failed notification is sent again.
SmsEdge_retries(r) ==
  CASE r = END -> END
    [] r = "handle_sms_error" -> "send_sms"

SmsEdge(r) ==
  CASE r = END -> END
    [] r = "handle_sms_error" -> "handle_sms_error"

(***************************************************************************)
(* State of the running system.                                            *)
(*   state  the BookingState held by the front-end / graph channels        *)
(*   pc     the node the graph runs next; END when the caller has control  *)
(*   turns  graph invocations made in this session                         *)
(*   entry  the BookingState the current invocation was started with       *)
(*   trace  the nodes run so far in the current invocation, in order       *)
(*   calls  the adapter calls made so far in the current invocation        *)
(*   committed  the references returned by the successful create_booking   *)
(*          calls of this session, in order                                *)
(*   printed  the lines the command-line front-end printed after the last  *)
(*          invocation (stays empty under the Streamlit front-end)         *)
(***************************************************************************)
VARIABLES state, pc, turns, entry, trace, calls, committed, printed

vars == <<state, pc, turns, entry, trace, calls, committed, printed>>

Call(op, args, result) == [op |-> op, args |-> args, result |-> result]

Init ==
  /\ state = InitialState
  /\ pc = END
  /\ turns = 0
  /\ entry = InitialState
  /\ trace = <<>>
  /\ calls = <<>>
  /\ committed = <<>>
  /\ printed = <<>>

\* streamlit_app.py "New Booking" button: a fresh session.
NewBooking ==
  /\ pc = END
  /\ turns > 0
  /\ state' = InitialState
  /\ turns' = 0
  /\ entry' = InitialState
  /\ trace' = <<>>
  /\ calls' = <<>>
  /\ committed' = <<>>
  /\ UNCHANGED <<pc, printed>>

\* streamlit_app.py user input handler: append the HumanMessage and invoke
\* the graph; the input is written to the channels through the reducer.
UserInput ==
  /\ pc = END
  /\ turns < MaxTurns
  /\ LET appended == [state EXCEPT !.messages =
                        Append(@, HumanMessage(Content(T_Human, <<>>)))]
         input == ApplyUpdate(InitialState, appended)
     IN /\ state' = input
        /\ entry' = input
  /\ pc' = "router"
  /\ turns' = turns + 1
  /\ trace' = <<>>
  /\ calls' = <<>>
  /\ UNCHANGED <<committed, printed>>

\* The entry node `lambda state: state` and its conditional edge.
Router ==
  /\ pc = "router"
  /\ state' = ApplyUpdate(state, state)
  /\ pc' = RouterEdge(router_node(state'))
  /\ trace' = Append(trace, "router")
  /\ UNCHANGED <<turns, entry, printed, calls, committed>>

CollectInfo ==
  /\ pc = "collect_info"
  /\ \E response \in BookingInfo :
       /\ state' = ApplyUpdate(state, collect_info_node(state, response))
       /\ calls' = Append(calls, Call("extract", <<>>, response))
  /\ pc' = CollectEdge(should_continue_collecting(state'))
  /\ trace' = Append(trace, "collect_info")
  /\ UNCHANGED <<turns, entry, printed, committed>>

Confirm ==
  /\ pc = "confirm"
  /\ state' = ApplyUpdate(state, confirm_node(state))
  /\ pc' = END
  /\ trace' = Append(trace, "confirm")
  /\ UNCHANGED <<turns, entry, printed, calls, committed>>

HandleConfirmation ==
  /\ pc = "handle_confirmation"
  /\ \E response \in ConfirmationResponse :
       /\ state' = ApplyUpdate(state, handle_confirmation_node(state, response))
       /\ calls' = Append(calls, Call("classify", <<>>, response))
  /\ pc' = ConfirmationEdge(check_confirmation_routing(state'))
  /\ trace' = Append(trace, "handle_confirmation")
  /\ UNCHANGED <<turns, entry, printed, committed>>

CreateBooking ==
  /\ pc = "create_booking"
  /\ \E result \in create_booking(state.restaurant_name, state.date, state.time,
                                  state.party_size, state.customer_name, state.phone) :
       /\ state' = ApplyUpdate(state, create_booking_node(state, result))
       /\ calls' = Append(calls, Call("create_booking", BookingArgs(state), result))
       /\ committed' = IF result.success
                       THEN Append(committed, result.booking_ref)
                       ELSE committed
  /\ pc' = BookingEdge(check_booking_success(state'))
  /\ trace' = Append(trace, "create_booking")
  /\ UNCHANGED <<turns, entry, printed>>

HandleBookingError ==
  /\ pc = "handle_booking_error"
  /\ \E result \in create_booking(state.restaurant_name, state.date, state.time,
                                  state.party_size, state.customer_name, state.phone) :
       /\ state' = ApplyUpdate(state, handle_booking_error_node(state, result))
       /\ calls' = Append(calls, Call("create_booking", BookingArgs(state), result))
       /\ committed' = IF result.success
                       THEN Append(committed, result.booking_ref)
                       ELSE committed
  /\ pc' = END
  /\ trace' = Append(trace, "handle_booking_error")
  /\ UNCHANGED <<turns, entry, printed>>

SendSms ==
  /\ pc = "send_sms"
  /\ \E result \in send_sms(state.phone, sms_message(state)) :
       /\ state' = ApplyUpdate(state, send_sms_node(state, result))
       /\ calls' = Append(calls, Call("send_sms", <<state.phone, sms_message(state)>>, result))
  /\ pc' = SmsEdge(check_sms_success(state'))
  /\ trace' = Append(trace, "send_sms")
  /\ UNCHANGED <<turns, entry, printed, committed>>

HandleSmsError ==
  /\ pc = "handle_sms_error"
  /\ state' = ApplyUpdate(state, handle_sms_error_node(state))
  /\ pc' = END
  /\ trace' = Append(trace, "handle_sms_error")
  /\ UNCHANGED <<turns, entry, printed, calls, committed>>

Next ==
  \/ NewBooking
  \/ UserInput
  \/ Router
  \/ CollectInfo
  \/ Confirm
  \/ HandleConfirmation
  \/ CreateBooking
  \/ HandleBookingError
  \/ SendSms
  \/ HandleSmsError

Spec == Init /\ [][Next]_vars

\* One step of a running invocation: app.invoke runs the graph to its end
\* without yielding, so a started invocation keeps taking steps.
EngineStep ==
  \/ Router
  \/ CollectInfo
  \/ Confirm
  \/ HandleConfirmation
  \/ CreateBooking
  \/ HandleBookingError
  \/ SendSms
  \/ HandleSmsError

(***************************************************************************)
(* LLM adapter failures.  llm_with_structure.invoke raises inside the      *)
(* node, the graph propagates the exception, and the front-end's `except`  *)
(* reports it and keeps the BookingState it invoked the graph with (the    *)
(* user's HumanMessage was appended to it before the call).                *)
(***************************************************************************)
CollectInfoRaises ==
  /\ pc = "collect_info"
  /\ state' = entry
  /\ calls' = Append(calls, Call("extract_raised", <<>>, <<>>))
  /\ pc' = END
  /\ trace' = Append(trace, "collect_info")
  /\ UNCHANGED <<turns, entry, printed, committed>>

HandleConfirmationRaises ==
  /\ pc = "handle_confirmation"
  /\ state' = entry
  /\ calls' = Append(calls, Call("classify_raised", <<>>, <<>>))
  /\ pc' = END
  /\ trace' = Append(trace, "handle_confirmation")
  /\ UNCHANGED <<turns, entry, printed, committed>>

NextWithFailures ==
  \/ Next
  \/ CollectInfoRaises
  \/ HandleConfirmationRaises

SpecWithFailures == Init /\ [][NextWithFailures]_vars

(***************************************************************************)
(* The command-line front-end (main.py run_agent).  One pass of its loop   *)
(* reads a line, appends it and invokes the graph; when the graph has      *)
(* returned it prints the reply and, on conversation_complete, the         *)
(* completion lines, then asks whether to start another booking.           *)
(***************************************************************************)
CLI_Agent == "Agent:"
CLI_Greeting == "Hello! I'm your restaurant booking assistant."
CLI_Complete == "Booking complete and saved!"
CLI_Reference == "Your booking reference is:"
CLI_Confirmed == "Your current booking is confirmed."
CLI_Another == "Would you like to make ANOTHER booking? (type 'yes' or 'no')"
CLI_CancelNote == "Note: Your booking is already confirmed and saved."
CLI_Goodbye == "Thank you for using the restaurant booking agent! Goodbye!"

CliLine(text) == Content(text, <<>>)

\* Answers to the "another booking" question, by the branch they take.
CliAnswers == {"yes", "no", "cancel"}
CliSecondAnswers == {"yes", "no"}

\* The loop has ended (exit keyword, or "no" to another booking).
Exited == \E i \in 1..Len(printed) : printed[i].template = CLI_Goodbye

\* Lines printed after app.invoke returned state s, up to the answers read.
CliReportLines(s, response) ==
  LET agent_response == s.messages[Len(s.messages)].content
  IN <<Content(CLI_Agent, <<agent_response.template>> \o agent_response.args)>>
     \o (IF s.conversation_complete
         THEN <<CliLine(CLI_Complete)>>
              \o (IF TruthyStr(s.booking_ref)
                  THEN <<Content(CLI_Reference, <<s.booking_ref[1]>>)>>
                  ELSE <<>>)
              \o <<CliLine(CLI_Confirmed), CliLine(CLI_Another)>>
              \o (IF response = "cancel" THEN <<CliLine(CLI_CancelNote)>> ELSE <<>>)
         ELSE <<>>)

\* A non-empty line that is not an exit keyword: append it and invoke.
CliUserInput ==
  /\ pc = END
  /\ ~Exited
  /\ trace = <<>> \/ printed # <<>>
  /\ turns < MaxTurns
  /\ LET appended == [state EXCEPT !.messages =
                        Append(@, HumanMessage(Content(T_Human, <<>>)))]
         input == ApplyUpdate(InitialState, appended)
     IN /\ state' = input
        /\ entry' = input
  /\ pc' = "router"
  /\ turns' = turns + 1
  /\ trace' = <<>>
  /\ calls' = <<>>
  /\ printed' = <<>>
  /\ UNCHANGED committed

\* An exit keyword at the prompt.
CliExit ==
  /\ pc = END
  /\ ~Exited
  /\ trace = <<>> \/ printed # <<>>
  /\ printed' = <<CliLine(CLI_Goodbye)>>
  /\ UNCHANGED <<state, pc, turns, entry, trace, calls, committed>>

\* The rest of the loop body after app.invoke has returned.
CliReport ==
  /\ pc = END
  /\ trace # <<>>
  /\ printed = <<>>
  /\ \E response \in CliAnswers, second \in CliSecondAnswers :
       LET final == IF response = "cancel" THEN second ELSE response
           lines == CliReportLines(state, response)
       IN IF ~state.conversation_complete
          THEN /\ printed' = lines
               /\ UNCHANGED <<state, pc, turns, entry, trace, calls, committed>>
          ELSE IF final = "yes"
          THEN /\ printed' = Append(lines, CliLine(CLI_Greeting))
               /\ state' = InitialState
               /\ turns' = 0
               /\ entry' = InitialState
               /\ trace' = <<>>
               /\ calls' = <<>>
               /\ committed' = <<>>
               /\ UNCHANGED pc
          ELSE /\ printed' = Append(lines, CliLine(CLI_Goodbye))
               /\ UNCHANGED <<state, pc, turns, entry, trace, calls, committed>>

NextCLI ==
  \/ CliUserInput
  \/ CliExit
  \/ CliReport
  \/ EngineStep

SpecCLI == Init /\ [][NextCLI]_vars

TypeOK ==
  /\ pc \in {END, "router", "collect_info", "confirm", "handle_confirmation",
             "create_booking", "handle_booking_error", "send_sms", "handle_sms_error"}
  /\ turns \in 0..MaxTurns

(***************************************************************************)
(* Vocabulary of the properties.                                           *)
(***************************************************************************)
Last(seq) == seq[Len(seq)]

CallsOf(op) == SelectSeq(calls, LAMBDA c : c.op = op)

Ran(node) == \E i \in 1..Len(trace) : trace[i] = node

\* The caller has control again after an invocation of the graph.
Returned == pc = END /\ trace # <<>>

ScalarKeys == FieldSet \cup {"booking_ref"}

AllSixPresent(s) == \A f \in FieldSet : s[f] # None

LastMessage == Last(state.messages)

(***************************************************************************)
(* C1  Terminal lock: an invocation started on a session whose             *)
(* conversation_complete is already true runs no node beyond the entry     *)
(* router, calls no adapter, and leaves the six booking fields and         *)
(* booking_ref as they were at the start of the invocation.                *)
(***************************************************************************)
C1_TerminalLock ==
  entry.conversation_complete =>
    /\ \A k \in ScalarKeys : state[k] = entry[k]
    /\ \A i \in 1..Len(trace) : trace[i] = "router"
    /\ Len(calls) = 0

(***************************************************************************)
(* C2  Retry success notifies: when an invocation has returned and its     *)
(* first create_booking call failed while the retry succeeded, booking_ref *)
(* holds the retry's reference and send_sms was called in that invocation. *)
(***************************************************************************)
C2_RetrySuccessNotifies ==
  LET creates == CallsOf("create_booking")
  IN (/\ Returned
      /\ Len(creates) = 2
      /\ ~creates[1].result.success
      /\ creates[2].result.success)
     => /\ state.booking_ref = creates[2].result.booking_ref
        /\ Ran("send_sms")
        /\ Len(CallsOf("send_sms")) = 1

(***************************************************************************)
(* C3  Booking retry bound: create_booking is never called more than twice *)
(* in one invocation, and an invocation in which the user confirmed and    *)
(* every create_booking call failed has made exactly two calls with the    *)
(* same six arguments and returns with conversation_complete true and      *)
(* booking_ref absent.                                                     *)
(***************************************************************************)
C3_BookingRetryBound ==
  LET creates == CallsOf("create_booking")
  IN /\ Len(creates) <= 2
     /\ (/\ Returned
         /\ Ran("create_booking")
         /\ \A i \in 1..Len(creates) : ~creates[i].result.success)
        => /\ Len(creates) = 2
           /\ creates[1].args = creates[2].args
           /\ creates[1].args = BookingArgs(entry)
           /\ state.conversation_complete
           /\ state.booking_ref = None

\* An invocation returned after both attempts failed although the service
\* was not the deterministically failing restaurant and a reference from an
\* earlier commit was held on entry.
C3_Witness ==
  /\ Returned
  /\ Len(CallsOf("create_booking")) = 2
  /\ \A i \in 1..2 : ~CallsOf("create_booking")[i].result.success
  /\ state.restaurant_name = Some("Mario's")
  /\ entry.booking_ref # None
  /\ state.conversation_complete

(***************************************************************************)
(* C4  Notification failure is non-fatal: when create_booking succeeded    *)
(* and send_sms then failed, the next node is handle_sms_error, and the    *)
(* invocation returns from handle_sms_error with conversation_complete     *)
(* true, booking_ref equal to the committed reference, and a last message  *)
(* from the assistant that says the booking is confirmed and contains the  *)
(* reference.                                                              *)
(***************************************************************************)
SmsFailedAfterCommit ==
  /\ Len(CallsOf("create_booking")) >= 1
  /\ Last(CallsOf("create_booking")).result.success
  /\ Len(CallsOf("send_sms")) >= 1
  /\ ~Last(CallsOf("send_sms")).result.success

C4_SmsFailureNonFatal ==
  SmsFailedAfterCommit =>
    LET ref == Last(CallsOf("create_booking")).result.booking_ref
    IN /\ state.booking_ref = ref
       /\ pc \in {"handle_sms_error", END}
       /\ Last(trace) = "send_sms" => pc = "handle_sms_error"
       /\ pc = END =>
            /\ Last(trace) = "handle_sms_error"
            /\ state.conversation_complete
            /\ LastMessage.role = "ai"
            /\ LastMessage.content.template = T_SmsError
            /\ LastMessage.content.template # T_BookingFailed
            /\ ContainsArg(LastMessage.content, ref[1])

C4_Witness ==
  /\ SmsFailedAfterCommit
  /\ pc = END
  /\ state.phone = Some("555-1234")
  /\ state.booking_ref = Some("BK-99999")

(***************************************************************************)
(* C5  Field monotonicity: within a session no step returns a set booking  *)
(* field to absent; only the collection state changes a field; a field the *)
(* extraction result omits keeps its stored value, and a field that        *)
(* changes takes the value the extraction result carried for it.           *)
(***************************************************************************)
C5_FieldMonotonicity ==
  [][turns' # 0 =>
       \A f \in FieldSet :
         /\ state[f] # None => state'[f] # None
         /\ pc # "collect_info" => state'[f] = state[f]
         /\ pc = "collect_info" =>
              LET r == Last(calls').result
              IN /\ r[f] = None => state'[f] = state[f]
                 /\ state'[f] # state[f] => r[f] = state'[f]]_vars

\* The collection state has just overwritten a stored restaurant with a new
\* value while the result omitted the date, which kept its stored value.
C5_Witness ==
  /\ trace # <<>>
  /\ Last(trace) = "collect_info"
  /\ entry.restaurant_name = Some("Mario's")
  /\ state.restaurant_name = Some("Test Failure Restaurant")
  /\ Last(calls).result.date = None
  /\ entry.date # None
  /\ state.date = entry.date

(***************************************************************************)
(* C6  Completion gating: should_continue_collecting answers "confirm"     *)
(* exactly when all six booking fields are non-absent and "collect"        *)
(* otherwise, and the collection state hands over to the summary state     *)
(* exactly in the first case and returns to the caller in the second.      *)
(***************************************************************************)
C6_CompletionGating ==
  /\ should_continue_collecting(state) = "confirm" <=> AllSixPresent(state)
  /\ should_continue_collecting(state) = "collect" <=> ~AllSixPresent(state)
  /\ (trace # <<>> /\ Last(trace) = "collect_info") =>
       /\ pc = "confirm" <=> AllSixPresent(state)
       /\ pc = END <=> ~AllSixPresent(state)

\* Collection has returned to the caller with only the phone still absent.
C6_Witness ==
  /\ trace # <<>>
  /\ Last(trace) = "collect_info"
  /\ pc = END
  /\ state.phone = None
  /\ \A f \in FieldSet \ {"phone"} : state[f] # None

(***************************************************************************)
(* C7  Rejection clears both flags: after the decision state has processed *)
(* a classification with user_wants_to_proceed false, awaiting_confirmation*)
(* and user_confirmed are both false.                                      *)
(***************************************************************************)
C7_RejectionClearsFlags ==
  (/\ trace # <<>>
   /\ Last(trace) = "handle_confirmation"
   /\ ~Last(calls).result.user_wants_to_proceed)
  => /\ ~state.awaiting_confirmation
     /\ ~state.user_confirmed

\* A rejection with a change request, processed on a session whose
\* user_confirmed was still true from an earlier confirmation.
C7_Witness ==
  /\ trace # <<>>
  /\ Last(trace) = "handle_confirmation"
  /\ ~Last(calls).result.user_wants_to_proceed
  /\ TruthyStr(Last(calls).result.requested_changes)
  /\ entry.user_confirmed
  /\ entry.awaiting_confirmation

(***************************************************************************)
(* C8  Entry routing: every invocation starts at the router, which leaves  *)
(* the BookingState exactly as the invocation received it, and the first   *)
(* node run after it is handle_confirmation if awaiting_confirmation was   *)
(* true on entry and collect_info otherwise.                               *)
(***************************************************************************)
EntryTarget ==
  IF entry.awaiting_confirmation THEN "handle_confirmation" ELSE "collect_info"

C8_EntryRouting ==
  /\ (pc # END /\ trace = <<>>) => pc = "router"
  /\ trace # <<>> => trace[1] = "router"
  /\ Len(trace) = 1 => (state = entry /\ pc = EntryTarget)
  /\ Len(trace) >= 2 => trace[2] = EntryTarget

\* The router has just sent a turn to handle_confirmation on a session that
\* already holds messages and all six fields.
C8_Witness ==
  /\ Len(trace) = 1
  /\ pc = "handle_confirmation"
  /\ AllSixPresent(state)
  /\ Len(state.messages) >= 3

(***************************************************************************)
(* C9  Confirmation-decision routing: the decision state is followed by    *)
(* create_booking exactly when the classification said proceed; otherwise  *)
(* the invocation returns at once with awaiting_confirmation false, having *)
(* called neither create_booking nor send_sms, and the next invocation is  *)
(* routed to collect_info.                                                 *)
(***************************************************************************)
RejectedAndReturned ==
  /\ Returned
  /\ trace = <<"router", "handle_confirmation">>
  /\ ~Last(calls).result.user_wants_to_proceed

C9_ConfirmationRouting ==
  [][/\ pc = "handle_confirmation" =>
          LET proceed == Last(calls').result.user_wants_to_proceed
          IN /\ pc' = "create_booking" <=> proceed
             /\ ~proceed =>
                  /\ pc' = END
                  /\ ~state'.awaiting_confirmation
                  /\ Len(CallsOf("create_booking")') = 0
                  /\ Len(CallsOf("send_sms")') = 0
     /\ (RejectedAndReturned /\ pc' = "router") =>
          /\ ~state'.awaiting_confirmation
          /\ RouterEdge(router_node(state')) = "collect_info"]_vars

C9_Witness ==
  /\ RejectedAndReturned
  /\ Last(calls).result.requested_changes = None
  /\ state.all_info_collected

(***************************************************************************)
(* C10  Commit routing: the commit state is followed by send_sms exactly   *)
(* when its create_booking call returned success with a reference, and by  *)
(* handle_booking_error exactly when that call failed, whatever booking_ref*)
(* the session held before the call.                                       *)
(***************************************************************************)
C10_CommitRouting ==
  [][pc = "create_booking" =>
       LET r == Last(calls').result
       IN /\ pc' \in {"send_sms", "handle_booking_error"}
          /\ pc' = "send_sms" <=> (r.success /\ r.booking_ref # None)
          /\ pc' = "handle_booking_error" <=> ~r.success]_vars

\* The commit call failed on a session that still held the reference of an
\* earlier booking, and control went to the recovery state.
C10_Witness ==
  /\ pc = "handle_booking_error"
  /\ entry.booking_ref # None
  /\ state.booking_ref = None

(***************************************************************************)
(* C11  Notification routing: the notification state is followed by END    *)
(* exactly when its send_sms call returned success and by handle_sms_error *)
(* exactly when it returned failure, whatever the message history holds.   *)
(***************************************************************************)
C11_NotificationRouting ==
  [][pc = "send_sms" =>
       LET r == Last(calls').result
       IN /\ pc' \in {END, "handle_sms_error"}
          /\ pc' = END <=> r.success
          /\ pc' = "handle_sms_error" <=> ~r.success]_vars

\* send_sms failed on a session whose history already holds an assistant
\* message with the words "sent a confirmation SMS".
C11_Witness ==
  /\ pc = "handle_sms_error"
  /\ \E i \in 1..Len(state.messages) : ContainsSmsPhrase(state.messages[i].content)

(***************************************************************************)
(* C12  booking_ref is non-absent only if a create_booking call of this    *)
(* session returned success, and its value is a reference such a call      *)
(* returned.                                                               *)
(***************************************************************************)
C12_RefOnlyFromCommit ==
  state.booking_ref # None =>
    \E i \in 1..Len(committed) : committed[i] = state.booking_ref

\* The session holds the reference of its second successful commit.
C12_Witness ==
  /\ Len(committed) = 2
  /\ committed[1] # committed[2]
  /\ state.booking_ref = committed[2]

(***************************************************************************)
(* C13 (as claimed)  Whenever the caller has control, all_info_collected   *)
(* is true exactly when all six booking fields are non-absent, and the     *)
(* collection state has recomputed the flag when it finishes.              *)
(***************************************************************************)
C13_FlagRecomputedByCollection ==
  /\ pc = END => (state.all_info_collected <=> AllSixPresent(state))
  /\ (trace # <<>> /\ Last(trace) = "collect_info") =>
       (state.all_info_collected <=> AllSixPresent(state))

(***************************************************************************)
(* C13 (amended)  Whenever the caller has control, all_info_collected is   *)
(* true exactly when all six booking fields are non-absent; the collection *)
(* state leaves the flag as it found it, and the summary state, which runs *)
(* in the same invocation once all six fields are present, sets it.        *)
(***************************************************************************)
C13_FlagAtReturn ==
  /\ pc = END => (state.all_info_collected <=> AllSixPresent(state))
  /\ (trace # <<>> /\ Last(trace) = "collect_info") =>
       state.all_info_collected = entry.all_info_collected
  /\ (trace # <<>> /\ Last(trace) = "confirm") => state.all_info_collected

\* The summary state has just set the flag in the invocation whose
\* collection completed the six fields.
C13_Witness ==
  /\ pc = END
  /\ trace = <<"router", "collect_info", "confirm">>
  /\ ~entry.all_info_collected
  /\ ~AllSixPresent(entry)
  /\ state.all_info_collected

(***************************************************************************)
(* C14  Whenever the decision state is about to run, awaiting_confirmation *)
(* and all_info_collected are not both false, and all six booking fields   *)
(* are non-absent.                                                         *)
(***************************************************************************)
C14_DecisionStateEntry ==
  pc = "handle_confirmation" =>
    /\ state.awaiting_confirmation \/ state.all_info_collected
    /\ AllSixPresent(state)

\* The decision state is entered a second time in a session, after an
\* earlier summary was rejected.
C14_Witness ==
  /\ pc = "handle_confirmation"
  /\ turns >= 4
  /\ committed = <<>>
  /\ ~state.conversation_complete

(***************************************************************************)
(* C15  A turn in which the extraction or classification adapter failed    *)
(* leaves the BookingState equal to the BookingState before the turn: no   *)
(* field, flag or message of the failed turn is kept.                      *)
(***************************************************************************)
TurnFailed ==
  /\ pc = END
  /\ calls # <<>>
  /\ Last(calls).op \in {"extract_raised", "classify_raised"}

\* The BookingState the front-end held before it appended the utterance.
BeforeTurn == [entry EXCEPT !.messages = SubSeq(@, 1, Len(@) - 1)]

C15_FailedTurnLeavesState ==
  TurnFailed => state = BeforeTurn

(***************************************************************************)
(* C16  Terminal failure messages restate the booking: the message of a    *)
(* failed retry and the message of a failed notification each contain all  *)
(* six booking fields, and the notification-failure message also contains  *)
(* booking_ref.                                                            *)
(***************************************************************************)
RenderedFields(s) ==
  {FormatStr(s.restaurant_name), FormatStr(s.date), FormatStr(s.time),
   FormatSize(s.party_size), FormatStr(s.customer_name), FormatStr(s.phone)}

C16_FailureMessagesRestateAll ==
  /\ (/\ trace # <<>>
      /\ Last(trace) = "handle_booking_error"
      /\ ~Last(calls).result.success)
     => \A v \in RenderedFields(state) : ContainsArg(LastMessage.content, v)
  /\ (trace # <<>> /\ Last(trace) = "handle_sms_error")
     => /\ \A v \in RenderedFields(state) : ContainsArg(LastMessage.content, v)
        /\ ContainsArg(LastMessage.content, FormatStr(state.booking_ref))

(***************************************************************************)
(* C17  Every invocation terminates and runs each node at most once: the   *)
(* nodes run in one invocation are pairwise distinct, the node about to    *)
(* run has not run before, a started invocation can always take its next   *)
(* step, every such step adds one node to the at most five nodes of the    *)
(* invocation (so it returns to the caller after at most five steps), and  *)
(* no adapter is called twice except create_booking, whose second call is  *)
(* the retry made by handle_booking_error.                                 *)
(***************************************************************************)
\* The nodes behind the entry router.
StepAfterRouter ==
  \/ CollectInfo
  \/ Confirm
  \/ HandleConfirmation
  \/ CreateBooking
  \/ HandleBookingError
  \/ SendSms
  \/ HandleSmsError

\* A started invocation can take its next step: the router has a target,
\* and the node behind it is enabled.
NotStuck ==
  /\ pc = "router" =>
       RouterEdge(router_node(ApplyUpdate(state, state)))
         \in {"collect_info", "handle_confirmation"}
  /\ pc \notin {END, "router"} => ENABLED StepAfterRouter

EachNodeOnce ==
  /\ \A i, j \in 1..Len(trace) : i # j => trace[i] # trace[j]
  /\ pc # END => ~Ran(pc)
  /\ NotStuck

AdapterCallsBounded ==
  /\ Len(CallsOf("extract")) <= 1
  /\ Len(CallsOf("classify")) <= 1
  /\ Len(CallsOf("send_sms")) <= 1
  /\ Len(CallsOf("create_booking")) <= 2
  /\ Len(CallsOf("create_booking")) = 2 =>
       /\ Ran("create_booking")
       /\ Ran("handle_booking_error")
       /\ ~CallsOf("create_booking")[1].result.success

C17_InvocationTerminates ==
  /\ [](EachNodeOnce /\ AdapterCallsBounded /\ Len(trace) <= 5)
  /\ [][pc # END => Len(trace') = Len(trace) + 1]_vars

\* An invocation that ran the longest path has returned.
C17_Witness ==
  /\ pc = END
  /\ trace = <<"router", "handle_confirmation", "create_booking",
               "send_sms", "handle_sms_error">>

(***************************************************************************)
(* C18  End-to-end success: the summary state shows exactly the stored     *)
(* values and waits for the reply; and an invocation in which the user     *)
(* proceeded, create_booking succeeded at once and send_sms succeeded      *)
(* returns with conversation_complete true, booking_ref set to the         *)
(* returned reference, and the confirmation-SMS acknowledgment as the last *)
(* message.                                                                *)
(***************************************************************************)
SuccessRun ==
  /\ pc = END
  /\ Len(CallsOf("create_booking")) = 1
  /\ CallsOf("create_booking")[1].result.success
  /\ Len(CallsOf("send_sms")) = 1
  /\ CallsOf("send_sms")[1].result.success

C18_EndToEndSuccess ==
  /\ (trace # <<>> /\ Last(trace) = "confirm") =>
       /\ pc = END
       /\ state.awaiting_confirmation
       /\ LastMessage.role = "ai"
       /\ LastMessage.content.template = T_Confirm
       /\ LastMessage.content.args =
            <<FormatStr(state.restaurant_name), FormatStr(state.date),
              FormatStr(state.time), FormatSize(state.party_size),
              FormatStr(state.customer_name), FormatStr(state.phone)>>
  /\ SuccessRun =>
       /\ trace = <<"router", "handle_confirmation", "create_booking", "send_sms">>
       /\ state.conversation_complete
       /\ state.booking_ref # None
       /\ state.booking_ref = CallsOf("create_booking")[1].result.booking_ref
       /\ LastMessage.role = "ai"
       /\ LastMessage.content.template = T_SmsSent

\* A fresh session: two collection turns, the summary, then the confirmed
\* turn that committed and notified.
C18_Witness ==
  /\ SuccessRun
  /\ turns = 3
  /\ Len(state.messages) = 8
  /\ state.messages[5].content.template = T_Confirm
  /\ state.messages[5].content.args =
       <<"Mario's", "2025-12-01", "19:00", "4", "John Doe", "555-1234">>
  /\ committed = <<state.booking_ref>>

(***************************************************************************)
(* C19  No notification retry: send_sms is called at most once in an       *)
(* invocation, and after a failed call the next node is handle_sms_error,  *)
(* after which the invocation returns.                                     *)
(***************************************************************************)
C19_NoNotificationRetry ==
  /\ Len(CallsOf("send_sms")) <= 1
  /\ (Len(CallsOf("send_sms")) = 1 /\ ~CallsOf("send_sms")[1].result.success) =>
       \/ Last(trace) = "send_sms" /\ pc = "handle_sms_error"
       \/ /\ Last(trace) = "handle_sms_error"
          /\ trace[Len(trace) - 1] = "send_sms"
          /\ pc = END

\* The invocation returned after the one failed notification to the phone
\* number the service always fails on.
C19_Witness ==
  /\ pc = END
  /\ Len(CallsOf("send_sms")) = 1
  /\ ~CallsOf("send_sms")[1].result.success
  /\ state.phone = Some("555-SMS-FAIL")

(***************************************************************************)
(* C20  A failed first attempt is not terminal: the commit state on        *)
(* failure leaves conversation_complete as it was, leaves booking_ref      *)
(* absent and hands over to handle_booking_error; handle_booking_error     *)
(* sets conversation_complete exactly when the retry failed too.           *)
(***************************************************************************)
C20_FirstFailureNotTerminal ==
  [][/\ (pc = "create_booking" /\ ~Last(calls').result.success) =>
          /\ state'.conversation_complete = state.conversation_complete
          /\ state'.booking_ref = None
          /\ pc' = "handle_booking_error"
     /\ pc = "handle_booking_error" =>
          /\ ~Last(calls').result.success => state'.conversation_complete
          /\ Last(calls').result.success =>
               state'.conversation_complete = state.conversation_complete]_vars

\* The first attempt has failed in a session that is not complete.
C20_Witness ==
  /\ pc = "handle_booking_error"
  /\ ~state.conversation_complete
  /\ state.booking_ref = None
  /\ state.restaurant_name = Some("Mario's")
  /\ entry.booking_ref = None

(***************************************************************************)
(* C21  The message history is append-only: within a session every step    *)
(* (a new user message or a node execution) keeps each message already in  *)
(* the history at its position with its content, and never shortens the    *)
(* history.                                                                *)
(***************************************************************************)
C21_HistoryAppendOnly ==
  [][turns' # 0 =>
       /\ Len(state'.messages) >= Len(state.messages)
       /\ \A i \in 1..Len(state.messages) :
            state'.messages[i] = state.messages[i]]_vars

\* A history grown over three turns, the last of which is still running.
C21_Witness ==
  /\ turns = 3
  /\ pc = "send_sms"
  /\ Len(state.messages) = 7
  /\ state.messages[1].role = "human"
  /\ state.messages[6].role = "human"

(***************************************************************************)
(* C22  Each execution of collect_info appends exactly one assistant       *)
(* message, the utterance of the extraction result, whatever fields the    *)
(* result carries.                                                         *)
(***************************************************************************)
C22_CollectionAppendsOne ==
  [][pc = "collect_info" =>
       /\ Len(state'.messages) = Len(state.messages) + 1
       /\ Last(state'.messages).role = "ai"
       /\ Last(state'.messages).content =
            Content(T_LLM, <<Last(calls').result.response_message>>)]_vars

\* collect_info has just run on an extraction result without any field.
C22_Witness ==
  /\ trace # <<>>
  /\ Last(trace) = "collect_info"
  /\ \A f \in FieldSet : Last(calls).result[f] = None
  /\ LastMessage.role = "ai"
  /\ Len(state.messages) = 2

(***************************************************************************)
(* C23  The engine returns with conversation_complete false only at the    *)
(* yield points: after collect_info with a field still absent, after the   *)
(* summary with awaiting_confirmation true, or after a rejected            *)
(* confirmation with user_confirmed false; and never after a successful    *)
(* create_booking call in that invocation.                                 *)
(***************************************************************************)
C23_YieldPoints ==
  (Returned /\ ~state.conversation_complete) =>
    /\ \/ Last(trace) = "collect_info" /\ ~AllSixPresent(state)
       \/ Last(trace) = "confirm" /\ state.awaiting_confirmation
       \/ Last(trace) = "handle_confirmation" /\ ~state.user_confirmed
    /\ \A i \in 1..Len(calls) :
         calls[i].op = "create_booking" => ~calls[i].result.success

(***************************************************************************)
(* C24  No double booking: in one session create_booking returns success   *)
(* at most once, and once it has succeeded no node that calls              *)
(* create_booking is entered again.                                        *)
(***************************************************************************)
C24_NoDoubleBooking ==
  /\ Len(committed) <= 1
  /\ committed # <<>> => pc \notin {"create_booking", "handle_booking_error"}

(***************************************************************************)
(* C25  A booking_ref that has been set is never cleared or replaced by a  *)
(* later step of the same session.                                         *)
(***************************************************************************)
C25_RefPersists ==
  [][(state.booking_ref # None /\ turns' # 0) =>
       state'.booking_ref = state.booking_ref]_vars

(***************************************************************************)
(* C26  No commit without confirmation of the shown details: every         *)
(* create_booking call is preceded, in its invocation, by a classification *)
(* with user_wants_to_proceed true, and its six arguments render to the    *)
(* six values of the most recent summary message.                          *)
(***************************************************************************)
SummaryIndexes ==
  {i \in 1..Len(state.messages) : state.messages[i].content.template = T_Confirm}

LastSummary ==
  state.messages[CHOOSE i \in SummaryIndexes : \A j \in SummaryIndexes : j <= i]

RenderArgs(a) ==
  <<FormatStr(a[1]), FormatStr(a[2]), FormatStr(a[3]),
    FormatSize(a[4]), FormatStr(a[5]), FormatStr(a[6])>>

C26_CommitOnlyConfirmedDetails ==
  \A i \in 1..Len(calls) :
    calls[i].op = "create_booking" =>
      /\ \E j \in 1..(i - 1) :
           calls[j].op = "classify" /\ calls[j].result.user_wants_to_proceed
      /\ SummaryIndexes # {}
      /\ RenderArgs(calls[i].args) = LastSummary.content.args

\* create_booking was called after a first summary was rejected and a
\* second summary with other values was confirmed.
C26_Witness ==
  /\ CallsOf("create_booking") # <<>>
  /\ \E i, j \in SummaryIndexes :
       /\ i < j
       /\ state.messages[i].content.args # state.messages[j].content.args

(***************************************************************************)
(* C27  Presentation step: when collect_info leaves all six fields         *)
(* present, confirm runs next and once in that invocation; it sets         *)
(* awaiting_confirmation and all_info_collected, appends one summary       *)
(* message, leaves the six fields, booking_ref, user_confirmed and         *)
(* conversation_complete unchanged, calls no adapter and returns to the    *)
(* caller.                                                                 *)
(***************************************************************************)
PresentationFrame == ScalarKeys \cup {"user_confirmed", "conversation_complete"}

C27_PresentationStep ==
  /\ []((trace # <<>> /\ Last(trace) = "collect_info" /\ AllSixPresent(state))
          => pc = "confirm")
  /\ []((Returned /\ Ran("collect_info") /\ AllSixPresent(state))
          => trace = <<"router", "collect_info", "confirm">>)
  /\ [][pc = "confirm" =>
          /\ state'.awaiting_confirmation
          /\ state'.all_info_collected
          /\ Len(state'.messages) = Len(state.messages) + 1
          /\ Last(state'.messages).role = "ai"
          /\ Last(state'.messages).content.template = T_Confirm
          /\ \A k \in PresentationFrame : state'[k] = state[k]
          /\ calls' = calls
          /\ pc' = END]_vars

\* The summary was presented in a session that already holds a reference
\* and a positive decision from an earlier confirmation.
C27_Witness ==
  /\ Returned
  /\ Last(trace) = "confirm"
  /\ state.user_confirmed
  /\ state.booking_ref # None
  /\ ~state.conversation_complete

(***************************************************************************)
(* C28  handle_booking_error: on retry success it sets booking_ref to the  *)
(* retry's reference, appends one success message and does not write       *)
(* conversation_complete; on retry failure it sets conversation_complete,  *)
(* appends the call-back message and does not write booking_ref.           *)
(***************************************************************************)
C28_RecoveryEffects ==
  [][pc = "handle_booking_error" =>
       LET result == Last(calls').result
           update == handle_booking_error_node(state, result)
       IN /\ Len(state'.messages) = Len(state.messages) + 1
          /\ Last(state'.messages).role = "ai"
          /\ IF result.success
             THEN /\ result.booking_ref # None
                  /\ state'.booking_ref = result.booking_ref
                  /\ Last(state'.messages).content =
                       Content(T_RetryOk, <<result.booking_ref[1]>>)
                  /\ "conversation_complete" \notin DOMAIN update
                  /\ state'.conversation_complete = state.conversation_complete
             ELSE /\ state'.conversation_complete
                  /\ Last(state'.messages).content.template = T_BookingFailed
                  /\ "booking_ref" \notin DOMAIN update
                  /\ state'.booking_ref = state.booking_ref]_vars

\* The retry succeeded and the invocation returned without completing.
C28_Witness ==
  /\ Returned
  /\ Last(trace) = "handle_booking_error"
  /\ Last(calls).result.success
  /\ state.booking_ref = Some("BK-99999")
  /\ ~state.conversation_complete

(***************************************************************************)
(* C29  A failed send_sms leaves the state as it was (empty update); the   *)
(* effects of the failure, the message and conversation_complete, are      *)
(* applied by handle_sms_error, which runs next.                           *)
(***************************************************************************)
C29_FailedSendChangesNothing ==
  [][/\ (pc = "send_sms" /\ ~Last(calls').result.success) =>
          /\ send_sms_node(state, Last(calls').result) = EmptyUpdate
          /\ state' = state
          /\ pc' = "handle_sms_error"
     /\ pc = "handle_sms_error" =>
          /\ state'.conversation_complete
          /\ Len(state'.messages) = Len(state.messages) + 1
          /\ Last(state'.messages).content.template = T_SmsError]_vars

\* The notification of a first booking has just failed: the last message
\* is still the one of create_booking and the session is not complete.
C29_Witness ==
  /\ pc = "handle_sms_error"
  /\ turns = 2
  /\ LastMessage.content.template = T_Created
  /\ ~state.conversation_complete

(***************************************************************************)
(* C30  handle_confirmation never changes the six booking fields or        *)
(* booking_ref, whatever the classification; within a session a field      *)
(* changes only in a collect_info step.                                    *)
(***************************************************************************)
C30_DecisionKeepsFields ==
  [][/\ pc = "handle_confirmation" =>
          \A k \in ScalarKeys : state'[k] = state[k]
     /\ ((\E k \in FieldSet : state'[k] # state[k]) /\ turns' # 0) =>
          pc = "collect_info"]_vars

\* A change was requested and the invocation returned with every field
\* still as confirmed in the summary.
C30_Witness ==
  /\ Returned
  /\ Last(trace) = "handle_confirmation"
  /\ ~Last(calls).result.user_wants_to_proceed
  /\ TruthyStr(Last(calls).result.requested_changes)
  /\ RenderArgs(BookingArgs(state)) = LastSummary.content.args

(***************************************************************************)
(* C31  Every invocation that returns has appended at least one assistant  *)
(* message, so the last message of the returned history is an assistant    *)
(* message and not the user's utterance, for every classification result.  *)
(***************************************************************************)
C31_ReplyIsAssistant ==
  Returned =>
    /\ Len(state.messages) > Len(entry.messages)
    /\ LastMessage.role = "ai"

(***************************************************************************)
(* C32  send_sms is called only after a create_booking call of the same    *)
(* invocation has succeeded, with booking_ref present at the time of the   *)
(* call and the SMS text carrying that reference.                          *)
(***************************************************************************)
C32_NotifyOnlyAfterCommit ==
  /\ pc = "send_sms" =>
       /\ state.booking_ref # None
       /\ calls # <<>>
       /\ Last(calls).op = "create_booking"
       /\ Last(calls).result.success
       /\ Last(calls).result.booking_ref = state.booking_ref
  /\ \A i \in 1..Len(calls) :
       calls[i].op = "send_sms" =>
         /\ i > 1
         /\ calls[i - 1].op = "create_booking"
         /\ calls[i - 1].result.success
         /\ calls[i].args[2].template = T_SmsBody
         /\ calls[i].args[2].args[5] = calls[i - 1].result.booking_ref[1]
         /\ state.booking_ref = calls[i - 1].result.booking_ref

\* The notification of a second booking of the session carries the second
\* reference, which differs from the first.
C32_Witness ==
  /\ CallsOf("send_sms") # <<>>
  /\ Len(committed) = 2
  /\ committed[1] # committed[2]
  /\ Last(CallsOf("send_sms")).args[2].args[5] = committed[2][1]

(***************************************************************************)
(* C33  The command-line front-end prints that the booking is complete or  *)
(* confirmed only for a session that ended with a booking reference; a     *)
(* session that ended in the booking-failure terminal is never announced   *)
(* as a confirmed booking.                                                 *)
(***************************************************************************)
AnnouncesBooking(lines) ==
  \E i \in 1..Len(lines) : lines[i].template \in {CLI_Complete, CLI_Confirmed}

C33_AnnouncedOnlyWhenCommitted ==
  [][(printed' # printed /\ AnnouncesBooking(printed')) =>
       state.booking_ref # None]_vars

====
